---- MODULE Spec2Model ----
(***************************************************************************)
(* Market-basket analysis of src/app/apriori_analysis.py: run_apriori      *)
(* preprocesses the caller's transaction table, computes statistics,       *)
(* builds the boolean member x item matrix, mines frequent itemsets        *)
(* (mlxtend apriori), derives association rules (mlxtend                   *)
(* association_rules), rounds the rule metrics and sorts them by lift.     *)
(*                                                                         *)
(* Supports, confidences and lifts are IEEE-754 binary64 values in the     *)
(* program; they are modelled bit-exactly (53-bit significands held in     *)
(* three 18-bit limbs) because the threshold comparisons and the rounding  *)
(* act on the computed doubles, not on the exact quotients.                *)
(***************************************************************************)
EXTENDS Integers, Sequences, FiniteSets, TLC

(***************************************************************************)
(* Bounds of the model.                                                    *)
(***************************************************************************)
MaxGroups == 3
NumItems == 3
NumDates == 2
MaxRows == 4
MaxIterOrders == 48
MaxTieOrders == 24

(***************************************************************************)
(* State.  data is the caller's DataFrame, which every run receives by     *)
(* reference; given is that table as the caller passed it.  process[r] is  *)
(* the interpreter process that run r executes in.  order and argsort      *)
(* belong to the running interpreter process: order[S] is the order in     *)
(* which the frozenset S of item names iterates (str hashes are salted per *)
(* process, and the order follows the hash table of each set), argsort[k]  *)
(* is the permutation the build's argsort(kind='quicksort') returns for    *)
(* the key column k (quicksort is not stable).  Both start empty and are   *)
(* fixed for a set or a column when a run first meets it.  All other       *)
(* variables are local to a call of run_apriori and indexed by run.        *)
(***************************************************************************)
VARIABLES data, given, process, order, argsort, min_support, min_confidence, pc,
          frame, stats, binary_data, itemset_dict, support_dict, max_itemset, combin,
          frequent_itemsets, rules, err

vars == <<data, given, process, order, argsort, min_support, min_confidence, pc,
          frame, stats, binary_data, itemset_dict, support_dict, max_itemset, combin,
          frequent_itemsets, rules, err>>

(***************************************************************************)
(* binary64 arithmetic.  A significand is <<hi, mid, lo>> in base 2^18.    *)
(***************************************************************************)
LimbBits == 18
MantBits == 53
LimbBase == 2^LimbBits
TopMin == 2^(MantBits - 1 - 2*LimbBits)
TopMax == 2*TopMin

BNZero == <<0, 0, 0>>

BNGeq(x, y) ==
    \/ x[1] > y[1]
    \/ x[1] = y[1] /\ x[2] > y[2]
    \/ x[1] = y[1] /\ x[2] = y[2] /\ x[3] >= y[3]

BNSub(x, y) ==
    LET b3 == IF x[3] < y[3] THEN 1 ELSE 0
        m0 == x[2] - y[2] - b3
        b2 == IF m0 < 0 THEN 1 ELSE 0
    IN  <<x[1] - y[1] - b2, m0 + b2*LimbBase, x[3] - y[3] + b3*LimbBase>>

BNDbl(x, bit) ==
    LET l0 == 2*x[3] + bit
        m0 == 2*x[2] + (l0 \div LimbBase)
    IN  <<2*x[1] + (m0 \div LimbBase), m0 % LimbBase, l0 % LimbBase>>

BNHalf(x) ==
    <<x[1] \div 2,
      (x[2] + (x[1] % 2)*LimbBase) \div 2,
      (x[3] + (x[2] % 2)*LimbBase) \div 2>>

BNOdd(x) == x[3] % 2 = 1

BNInc(x) ==
    LET l0 == x[3] + 1
        m0 == x[2] + (l0 \div LimbBase)
    IN  <<x[1] + (m0 \div LimbBase), m0 % LimbBase, l0 % LimbBase>>

BNMulSmall(x, c) ==
    LET l0 == x[3]*c
        m0 == x[2]*c + (l0 \div LimbBase)
    IN  <<x[1]*c + (m0 \div LimbBase), m0 % LimbBase, l0 % LimbBase>>

BNFromInt(n) == <<0, n \div LimbBase, n % LimbBase>>

FZero == [m |-> BNZero, e |-> 0]

(* The loops below carry their whole state in one tuple st and test it at  *)
(* every step, so each step works on evaluated values.                     *)

\* st = <<m, e>>: shift m left until it has MantBits bits
RECURSIVE NormalizeUp(_)
NormalizeUp(st) ==
    IF st[1][1] >= TopMin THEN [m |-> st[1], e |-> st[2]]
    ELSE NormalizeUp(<<BNDbl(st[1], 0), st[2] - 1>>)

\* st = <<m, e, guard, sticky>>: round-to-nearest-even of m * 2^e to MantBits bits
RECURSIVE RoundShift(_)
RoundShift(st) ==
    IF st[1][1] >= TopMax
    THEN RoundShift(<<BNHalf(st[1]), st[2] + 1, BNOdd(st[1]), st[4] \/ st[3]>>)
    ELSE LET up == st[3] /\ (st[4] \/ BNOdd(st[1]))
             m1 == IF up THEN BNInc(st[1]) ELSE st[1]
         IN  IF m1[1] >= TopMax THEN [m |-> BNHalf(m1), e |-> st[2] + 1]
             ELSE [m |-> m1, e |-> st[2]]

FromIntRaw(n) == IF n = 0 THEN FZero ELSE NormalizeUp(<<BNFromInt(n), 0>>)

\* DataFrame.round(3) works in units of 10^-3
Decimals == 3
Scale == 10^Decimals

\* st = <<rem, q>>: n more quotient bits of rem / d by shift and subtract
RECURSIVE DivLoop(_, _, _)
DivLoop(st, d, n) ==
    IF n = 0 THEN st
    ELSE IF BNGeq(st[1], d)
         THEN DivLoop(<<BNDbl(BNSub(st[1], d), 0), BNDbl(st[2], 1)>>, d, n - 1)
         ELSE DivLoop(<<BNDbl(st[1], 0), BNDbl(st[2], 0)>>, d, n - 1)

\* x / y in binary64 for evaluated operands, y nonzero
FDivEval(x, y) ==
    IF x = FZero THEN FZero
    ELSE LET n == IF BNGeq(x.m, y.m) THEN MantBits ELSE MantBits + 1
             qr == DivLoop(<<x.m, BNZero>>, y.m, n)
             guard == BNGeq(qr[1], y.m)
             sticky == qr[1] # y.m /\ qr[1] # BNZero
         IN  RoundShift(<<qr[2], x.e - y.e - (n - 1), guard, sticky>>)

\* the operands are bound to their values before the division loop runs
FDivRaw(x, y) == CHOOSE r \in {FDivEval(xv, yv) : xv \in {x}, yv \in {y}} : TRUE

\* x * c in binary64 for a small positive integer c
FMulSmall(x, c) ==
    CHOOSE r \in {IF xv = FZero THEN FZero
                  ELSE RoundShift(<<BNMulSmall(xv.m, c), xv.e, FALSE, FALSE>>) : xv \in {x}} : TRUE

FGeq(x, y) ==
    IF y = FZero THEN TRUE
    ELSE IF x = FZero THEN FALSE
    ELSE x.e > y.e \/ (x.e = y.e /\ BNGeq(x.m, y.m))

\* st = <<m, k, guard, sticky>>: m / 2^k to the nearest integer, ties to even
RECURSIVE RintShift(_)
RintShift(st) ==
    IF st[2] = 0
    THEN LET n == st[1][2]*LimbBase + st[1][3]
         IN  IF st[3] /\ (st[4] \/ BNOdd(st[1])) THEN n + 1 ELSE n
    ELSE RintShift(<<BNHalf(st[1]), st[2] - 1, BNOdd(st[1]), st[4] \/ st[3]>>)

\* numpy rint of x, for 0 <= x < 2^31
Rint(x) ==
    CHOOSE n \in {IF xv = FZero THEN 0
                  ELSE RintShift(<<xv.m, 0 - xv.e, FALSE, FALSE>>) : xv \in {x}} : TRUE

\* NaN, as produced by the mean of an empty Series
FNaN == [m |-> BNZero, e |-> 1]

(***************************************************************************)
(* Sequence helpers.                                                       *)
(***************************************************************************)
Range(s) == {s[i] : i \in DOMAIN s}

RECURSIVE SortedSeq(_)
SortedSeq(S) ==
    IF S = {} THEN <<>>
    ELSE LET lo == CHOOSE x \in S : \A y \in S : x <= y
         IN  <<lo>> \o SortedSeq(S \ {lo})

RECURSIVE Flatten(_)
Flatten(ss) == IF ss = <<>> THEN <<>> ELSE Head(ss) \o Flatten(Tail(ss))

\* itertools.combinations(s, r): the r-subsequences of s in lexicographic
\* order of their positions
RECURSIVE Combinations(_, _)
Combinations(s, r) ==
    IF r = 0 THEN << <<>> >>
    ELSE IF Len(s) < r THEN <<>>
    ELSE LET rest == Combinations(Tail(s), r - 1)
         IN  [i \in 1..Len(rest) |-> <<Head(s)>> \o rest[i]]
                 \o Combinations(Tail(s), r)

\* the orders in which the elements of S can be enumerated
OrdersOf(S) ==
    {p \in [1..Cardinality(S) -> S] : \A i, j \in DOMAIN p : i # j => p[i] # p[j]}

(***************************************************************************)
(* The transaction table: a DataFrame is the sequence of its rows.         *)
(* Items are numbered in the lexicographic order of their cleaned names.   *)
(* An itemDescription cell is a cleaned name, a raw spelling of it         *)
(* (padding or upper case) or NaN; a Date cell is a dd-mm-yyyy string or,  *)
(* once converted, a timestamp.                                            *)
(***************************************************************************)
ItemIds == 1..NumItems
Days == 1..NumDates

Clean(i) == [id |-> i, form |-> "clean"]
Raw(i) == [id |-> i, form |-> "raw"]
NaNItem == [id |-> 0, form |-> "nan"]
DateStr(d) == [day |-> d, kind |-> "str"]

Row(g, d, v) == [Member_number |-> g, Date |-> d, itemDescription |-> v]

\* the name in a cell as the key it is compared and sorted by: a cleaned
\* name is its number, a raw spelling (upper case or leading blank) is a
\* different string that sorts before every cleaned name
ItemName(v) == IF v.form = "clean" THEN v.id ELSE v.id - (NumItems + 1)

\* a variant of ToDatetime that moves a value that is already a timestamp to
\* the next day
ToDatetimeShift(d) ==
    IF d.kind = "ts" THEN [d EXCEPT !.day = (@ % NumDates) + 1] ELSE [d EXCEPT !.kind = "ts"]

\* pd.to_datetime(..., format='%d-%m-%Y'): strings are parsed, timestamps kept
ToDatetime(d) == [d EXCEPT !.kind = "ts"]

\* .str.strip().str.lower(): NaN stays NaN
StrStripLower(v) == IF v.form = "raw" THEN [v EXCEPT !.form = "clean"] ELSE v

\* DataFrame.drop_duplicates(): the first of equal rows is kept
RECURSIVE DropDuplicatesFrom(_, _)
DropDuplicatesFrom(df, seen) ==
    IF df = <<>> THEN <<>>
    ELSE IF Head(df) \in seen THEN DropDuplicatesFrom(Tail(df), seen)
    ELSE <<Head(df)>> \o DropDuplicatesFrom(Tail(df), seen \cup {Head(df)})

DropDuplicates(df) == DropDuplicatesFrom(df, {})

IsNaRow(row) == row.itemDescription.form = "nan"

\* DataFrame.dropna()
DropNa(df) == SelectSeq(df, LAMBDA row : ~IsNaRow(row))

\* line 22: data['Date'] = pd.to_datetime(data['Date'], ...)
AssignDate(df) == [i \in DOMAIN df |-> [df[i] EXCEPT !.Date = ToDatetime(@)]]

\* a column of a non-empty table that holds no string is float64 (that is
\* how read_csv and the DataFrame constructor deliver it), and .str on it
\* raises AttributeError
AllNaN(df) == df # <<>> /\ \A i \in DOMAIN df : IsNaRow(df[i])

\* what the operators below return in place of a table when line 25 raises
AttributeError == <<[raised |-> "AttributeError: Can only use .str accessor with string values!"]>>

\* line 25: data['itemDescription'] = data['itemDescription'].str.strip().str.lower()
AssignItems(df) ==
    IF AllNaN(df) THEN AttributeError
    ELSE [i \in DOMAIN df |-> [df[i] EXCEPT !.itemDescription = StrStripLower(@)]]

\* the two column assignments of preprocess_data, made on the caller's frame
AssignColumns(df) == AssignItems(AssignDate(df))

\* the frame preprocess_data returns
preprocess_data(df) ==
    IF AllNaN(df) THEN AttributeError ELSE DropNa(DropDuplicates(AssignColumns(df)))

(***************************************************************************)
(* Inputs of the model.  A run's thresholds are the decimal literals       *)
(* num/den the caller writes; the program sees the nearest double.         *)
(***************************************************************************)
Ratio(n, d) == [num |-> n, den |-> d]

\* rows of a table in which member g bought the items baskets[g] on day 1
BasketRows(baskets) ==
    Flatten([g \in DOMAIN baskets |->
                [j \in 1..Cardinality(baskets[g]) |->
                    Row(g, DateStr(1), Clean(SortedSeq(baskets[g])[j]))]])

BasketCode(B) == LET w[i \in 0..NumItems] ==
                         IF i = 0 THEN 0
                         ELSE 2*w[i - 1] + (IF (NumItems + 1 - i) \in B THEN 1 ELSE 0)
                 IN  w[NumItems]

\* the number of (member, item) rows of the baskets
RECURSIVE RowCount(_)
RowCount(baskets) ==
    IF baskets = <<>> THEN 0 ELSE Cardinality(Head(baskets)) + RowCount(Tail(baskets))

\* one representative per multiset of non-empty baskets of at most MaxGroups
\* members and MaxRows rows
AllBaskets ==
    UNION {{b \in [1..n -> (SUBSET ItemIds) \ {{}}] :
                /\ \A g \in 1..(n - 1) : BasketCode(b[g]) <= BasketCode(b[g + 1])
                /\ RowCount(b) <= MaxRows} :
           n \in 0..MaxGroups}

\* bread = 1, butter = 2, milk = 3:
\* g1 {milk, bread}, g2 {milk, butter}, g3 {milk, bread, butter}, g4 {bread}
ScenarioBaskets == <<{1, 3}, {2, 3}, {1, 2, 3}, {1}>>

\* five members; item 1 in four baskets, item 2 in four, both in three
RatioBaskets == <<{1, 2}, {1, 2}, {1, 2}, {1}, {2}>>

\* four members; item 3 only together with items 1 and 2, and the three
\* items in different numbers of baskets
TieBaskets == <<{1, 2, 3}, {1}, {1}, {2}>>

\* three members; item 2 in two of the three baskets that hold item 1
ThirdsBaskets == <<{1, 2}, {1, 2}, {1}>>

NamedBaskets == {ScenarioBaskets, RatioBaskets, TieBaskets, ThirdsBaskets}

\* one more row that member 1 adds to the table
ExtraRows ==
    {<<Row(1, DateStr(d), v)>> :
        d \in Days, v \in {Clean(i) : i \in ItemIds} \cup {Raw(i) : i \in ItemIds} \cup {NaNItem}}

ThresholdPairs ==
    {<<Ratio(1, 1000), Ratio(667, 1000)>>, <<Ratio(1, 2), Ratio(3, 5)>>,
     <<Ratio(1, 2), Ratio(1, 1)>>, <<Ratio(1, 1), Ratio(1, 1)>>}
ScenarioSupports == {Ratio(1, 1000), Ratio(1, 2), Ratio(1, 1)}
ScenarioConfidences == {Ratio(3, 5), Ratio(667, 1000), Ratio(3, 4), Ratio(1, 1)}
InvalidParams ==
    {<<Ratio(0, 1), Ratio(3, 5)>>, <<Ratio(3, 2), Ratio(3, 5)>>,
     <<Ratio(1, 2), Ratio(0, 1)>>, <<Ratio(1, 2), Ratio(3, 2)>>,
     <<Ratio(0, 1), Ratio(3, 2)>>}

Input(rows, sup, conf) == [rows |-> rows, min_support |-> sup, min_confidence |-> conf]

\* the tables with fewer rows than the bound on members
SmallBaskets == {b \in AllBaskets : RowCount(b) < MaxGroups}

\* every table under four pairs of thresholds; the smallest tables with one
\* more row; the small tables under thresholds outside (0, 1]; the
\* named tables under more thresholds
Inputs ==
    {Input(BasketRows(b), p[1], p[2]) :
        b \in AllBaskets, p \in ThresholdPairs}
    \cup {Input(BasketRows(b) \o x, Ratio(1, 2), Ratio(3, 5)) :
        b \in {c \in SmallBaskets : RowCount(c) + 1 < MaxGroups}, x \in ExtraRows}
    \cup {Input(BasketRows(b), p[1], p[2]) :
        b \in SmallBaskets, p \in InvalidParams}
    \cup {Input(BasketRows(b), s, c) :
        b \in NamedBaskets, s \in ScenarioSupports, c \in ScenarioConfidences}

(***************************************************************************)
(* Quotients are looked up in a table that FDivRaw fills once for every    *)
(* operand pair the inputs can produce.                                    *)
(***************************************************************************)
MaxN == CHOOSE n \in {MaxGroups} \cup {Len(b) : b \in NamedBaskets} :
            \A k \in {MaxGroups} \cup {Len(b) : b \in NamedBaskets} : k <= n

\* the most rows a table has after preprocessing
MaxCount == MaxN * NumItems + 1

\* the doubles of the small integers: counts and the numbers of the decimal
\* literals
SmallInts == <<>> @@ [n \in 0..Scale |-> FromIntRaw(n)]

\* the double equal to the integer n
FromInt(n) ==
    CHOOSE r \in {IF n \in DOMAIN t THEN t[n] ELSE FromIntRaw(n) : t \in {SmallInts}} : TRUE

ParamRatios == UNION {{in.min_support, in.min_confidence} : in \in Inputs}

\* count / rows and the decimal literals
IntPairs ==
    {<<a, n>> : a \in 0..MaxCount, n \in 1..MaxN}
    \cup {<<q.num, q.den>> : q \in ParamRatios}

\* the operand pairs of stage k given the quotients tab of the stages before:
\* integers (3), support over support (2), confidence over support (1)
StagePairs(tab, k) ==
    UNION {IF k = 3 THEN {<<t[q[1]], t[q[2]]>> : q \in IntPairs}
           ELSE UNION {UNION {IF k = 2 THEN conf
                              ELSE {<<tab[q], c>> : q \in conf, c \in sup} :
                                  conf \in {{q \in sup \X sup : FGeq(q[2], q[1])}}} :
                           sup \in {{tab[<<t[a], t[n]>>] : a \in 1..m, n \in 1..m}}} :
               t \in {SmallInts}, m \in {MaxN}}

RECURSIVE Tabulate(_, _)
Tabulate(tab, k) ==
    IF k = 0 THEN tab
    ELSE Tabulate(tab @@ [q \in StagePairs(tab, k) |-> FDivRaw(q[1], q[2])], k - 1)

\* the supports, confidences and lifts
Ratios == Tabulate(<<>>, 3)

\* rint(v * 10^3) for every value of the table tab
Scaled(tab) == <<>> @@ [v \in Range(tab) |-> Rint(FMulSmall(v, Scale))]

\* tab and the quotients n / 10^3 of the results
WithRounded(tab) ==
    tab @@ [q \in {<<FromIntRaw(n), FromIntRaw(Scale)>> : n \in Range(Scaled(tab))} |->
               FDivRaw(q[1], q[2])]

Quotients == WithRounded(Ratios)

ScaledValues == Scaled(Ratios)

\* x / y in binary64
FDiv(x, y) == Quotients[<<x, y>>]

\* the double nearest to the decimal literal num/den
FromRatio(q) == FDiv(FromInt(q.num), FromInt(q.den))

\* DataFrame.round(3) on a float column: multiply by 10^3, rint, divide by 10^3
Round(v) == FDiv(FromInt(ScaledValues[v]), FromInt(Scale))

(***************************************************************************)
(* analyze_transactions.                                                   *)
(***************************************************************************)
MembersOf(df) == {df[i].Member_number : i \in DOMAIN df}
ItemsOf(df) == {ItemName(df[i].itemDescription) : i \in DOMAIN df}
DaysOf(df) == {df[i].Date.day : i \in DOMAIN df}

\* value_counts() of the item column
ValueCounts(df) ==
    [it \in ItemsOf(df) |->
        Cardinality({i \in DOMAIN df : ItemName(df[i].itemDescription) = it})]

\* .head(10) of the value counts
TopN == 10

MostCommon(df) ==
    LET vc == ValueCounts(df)
        top == CHOOSE T \in SUBSET DOMAIN vc :
                   /\ Cardinality(T) = IF Cardinality(DOMAIN vc) < TopN
                                       THEN Cardinality(DOMAIN vc) ELSE TopN
                   /\ \A a \in T : \A b \in (DOMAIN vc) \ T : vc[a] >= vc[b]
    IN  [it \in top |-> vc[it]]

analyze_transactions(df) ==
    [total_transactions |-> Cardinality(MembersOf(df)),
     total_items |-> Cardinality(ItemsOf(df)),
     \* mean of the per-member row counts; NaN when there is no member
     avg_items_per_transaction |->
        IF df = <<>> THEN FNaN
        ELSE FDiv(FromInt(Len(df)), FromInt(Cardinality(MembersOf(df)))),
     most_common_items |-> MostCommon(df),
     transaction_by_date |->
        [d \in DaysOf(df) |->
            Cardinality({df[i].Member_number : i \in {j \in DOMAIN df : df[j].Date.day = d}})]]

\* a variant of Crosstab whose cell is TRUE iff the frame has exactly one row
\* for the pair
CrosstabSingle(df) ==
    [index |-> MembersOf(df),
     columns |-> ItemsOf(df),
     X |-> [c \in MembersOf(df) \X ItemsOf(df) |->
              Cardinality({i \in DOMAIN df :
                              /\ df[i].Member_number = c[1]
                              /\ ItemName(df[i].itemDescription) = c[2]}) = 1]]

(***************************************************************************)
(* pd.crosstab(...).astype(bool): rows are the members, columns the items  *)
(* (both sorted), and a cell is TRUE iff the frame has a row for the pair. *)
(***************************************************************************)
Crosstab(df) ==
    [index |-> MembersOf(df),
     columns |-> ItemsOf(df),
     X |-> [c \in MembersOf(df) \X ItemsOf(df) |->
              \E i \in DOMAIN df : df[i].Member_number = c[1]
                                   /\ ItemName(df[i].itemDescription) = c[2]]]

(***************************************************************************)
(* mlxtend.frequent_patterns.apriori(binary_data, min_support,             *)
(* use_colnames=True).  A candidate is the ascending tuple of its items.   *)
(***************************************************************************)
RowsWith(bd, t) == {g \in bd.index : \A j \in DOMAIN t : bd.X[<<g, t[j]>>]}

\* _support: the column sums over the number of rows
Support(bd, t) == FDiv(FromInt(Cardinality(RowsWith(bd, t))), FromInt(Cardinality(bd.index)))

\* the first level: every column with its support
SeedCandidates(bd) == [j \in 1..Cardinality(bd.columns) |-> <<SortedSeq(bd.columns)[j]>>]

\* a variant of generate_new_combinations that extends a tuple by every item
\* of the previous level that is not in it
generate_all_extensions(old) ==
    LET types == UNION {Range(old[i]) : i \in DOMAIN old}
        valid(i) == SortedSeq({it \in types : it \notin Range(old[i])})
    IN  Flatten([i \in DOMAIN old |->
                    [j \in 1..Len(valid(i)) |-> old[i] \o <<valid(i)[j]>>]])

\* generate_new_combinations: each itemset of the last level is extended by
\* every item of that level greater than its last item
generate_new_combinations(old) ==
    LET types == UNION {Range(old[i]) : i \in DOMAIN old}
        valid(i) == SortedSeq({it \in types : it > old[i][Len(old[i])]})
    IN  Flatten([i \in DOMAIN old |->
                    [j \in 1..Len(valid(i)) |-> old[i] \o <<valid(i)[j]>>]])

\* a variant of Mask that keeps a candidate only above the threshold
MaskStrict(bd, cands, ms) == {j \in DOMAIN cands : ~FGeq(ms, Support(bd, cands[j]))}

\* support >= min_support
Mask(bd, cands, ms) == {j \in DOMAIN cands : FGeq(Support(bd, cands[j]), ms)}

\* combin[_mask] and support[_mask]
Masked(cands, mask) == SelectSeq(cands, LAMBDA t : \E j \in mask : cands[j] = t)
MaskedSupport(bd, cands, mask) ==
    LET kept == Masked(cands, mask)
    IN  [j \in DOMAIN kept |-> Support(bd, kept[j])]

\* a variant of CollectItemsets that returns the rows of the last level only
CollectLastLevel(idict, sdict) ==
    [j \in DOMAIN idict[Len(idict)] |->
        [support |-> sdict[Len(idict)][j], itemsets |-> Range(idict[Len(idict)][j])]]

\* the result frame: one row per itemset, level by level
CollectItemsets(idict, sdict) ==
    Flatten([k \in DOMAIN idict |->
                [j \in DOMAIN idict[k] |->
                    [support |-> sdict[k][j], itemsets |-> Range(idict[k][j])]]])

(***************************************************************************)
(* mlxtend.frequent_patterns.association_rules(frequent_itemsets,          *)
(* metric="confidence", min_threshold=min_confidence).  The leverage,      *)
(* conviction and zhangs_metric columns, which run_apriori and its caller  *)
(* never read, are left out of the rows.                                   *)
(***************************************************************************)
HasKey(fi, S) == \E i \in DOMAIN fi : fi[i].itemsets = S
Lookup(fi, S) == fi[CHOOSE i \in DOMAIN fi : fi[i].itemsets = S].support

\* iteration order of the frozenset S of two or more items
IterOrder(ord, S) == ord[S]

\* the itemsets of the frame that association_rules iterates over
Iterated(fi) == {fi[i].itemsets : i \in {j \in DOMAIN fi : Cardinality(fi[j].itemsets) >= 2}}

\* every way the frozensets of Ss can iterate: one order per set, each set
\* on its own
RECURSIVE OrderChoices(_)
OrderChoices(Ss) ==
    IF Ss = {} THEN {<<>>}
    ELSE LET S == CHOOSE T \in Ss : TRUE
         IN  {(S :> o) @@ f : o \in OrdersOf(S), f \in OrderChoices(Ss \ {S})}

\* a variant of Splits whose consequent is the whole itemset
SplitsWhole(ord, S) ==
    Flatten([t \in 1..(Cardinality(S) - 1) |->
                LET cs == Combinations(IterOrder(ord, S), Cardinality(S) - t)
                IN  [j \in DOMAIN cs |->
                        [antecedents |-> Range(cs[j]), consequents |-> S, union |-> S]]])

\* for idx in range(len(k) - 1, 0, -1): for c in combinations(k, r=idx)
Splits(ord, S) ==
    Flatten([t \in 1..(Cardinality(S) - 1) |->
                LET cs == Combinations(IterOrder(ord, S), Cardinality(S) - t)
                IN  [j \in DOMAIN cs |->
                        [antecedents |-> Range(cs[j]), consequents |-> S \ Range(cs[j]),
                         union |-> S]]])

Candidates(fi, ord) == Flatten([i \in DOMAIN fi |-> Splits(ord, fi[i].itemsets)])

MissingKey(fi, ord) ==
    LET cands == Candidates(fi, ord)
    IN  \E i \in DOMAIN cands :
            ~HasKey(fi, cands[i].antecedents) \/ ~HasKey(fi, cands[i].consequents)

Confidence(sAC, sA) == FDiv(sAC, sA)
\* a variant of Lift that divides the support, not the confidence
LiftOfSupport(sAC, sA, sC) == FDiv(sAC, sC)

Lift(sAC, sA, sC) == FDiv(Confidence(sAC, sA), sC)

\* score >= min_threshold
Qualifies(fi, c, mc) == FGeq(Confidence(Lookup(fi, c.union), Lookup(fi, c.antecedents)), mc)

association_rules(fi, mc, ord) ==
    LET cands == Candidates(fi, ord)
        kept == SelectSeq(cands, LAMBDA c : Qualifies(fi, c, mc))
    IN  [i \in DOMAIN kept |->
            LET sAC == Lookup(fi, kept[i].union)
                sA == Lookup(fi, kept[i].antecedents)
                sC == Lookup(fi, kept[i].consequents)
            IN  [index |-> i - 1,
                 antecedents |-> kept[i].antecedents,
                 consequents |-> kept[i].consequents,
                 antecedent_support |-> sA,
                 consequent_support |-> sC,
                 support |-> sAC,
                 confidence |-> Confidence(sAC, sA),
                 lift |-> Lift(sAC, sA, sC)]]

(***************************************************************************)
(* Lines 96-103 of run_apriori: round three columns, sort by lift.         *)
(***************************************************************************)
\* a variant of RoundColumns that leaves the lift as computed
RoundTwoColumns(rs) ==
    [i \in DOMAIN rs |-> [rs[i] EXCEPT !.confidence = Round(@), !.support = Round(@)]]

RoundColumns(rs) ==
    [i \in DOMAIN rs |->
        [rs[i] EXCEPT !.lift = Round(@), !.confidence = Round(@), !.support = Round(@)]]

\* the lift column of the rules
LiftColumn(rs) == [i \in DOMAIN rs |-> rs[i].lift]

\* the permutations argsort(kind='quicksort') can return for a descending
\* sort by the column keys: larger keys first, equal keys in any order
RECURSIVE ArgsortsOf(_, _)
ArgsortsOf(keys, idx) ==
    IF idx = {} THEN {<<>>}
    ELSE LET top == {i \in idx : \A j \in idx : FGeq(keys[i], keys[j])}
         IN  {p \o q : p \in OrdersOf(top), q \in ArgsortsOf(keys, idx \ top)}

Argsorts(keys) == ArgsortsOf(keys, DOMAIN keys)

\* a variant of SortByLift that leaves the rows as generated
Unsorted(rs, perm) == rs

\* sort_values('lift', ascending=False): the rows taken in the order of the
\* permutation that argsort has returned for the lift column
SortByLift(rs, perm) == [i \in DOMAIN rs |-> rs[perm[i]]]

(***************************************************************************)
(* run_apriori, one action per stage.  Run 1 is the call under study; run  *)
(* 2 is a second call on the same DataFrame object and stays "idle" unless *)
(* the initial state starts it.                                            *)
(***************************************************************************)
Runs == {1, 2}

NoStats == [total_transactions |-> -1, total_items |-> -1,
            avg_items_per_transaction |-> FNaN,
            most_common_items |-> <<>>, transaction_by_date |-> <<>>]
NoMatrix == [index |-> {}, columns |-> {}, X |-> <<>>]

Locals ==
    /\ frame = [r \in Runs |-> <<>>]
    /\ stats = [r \in Runs |-> NoStats]
    /\ binary_data = [r \in Runs |-> NoMatrix]
    /\ itemset_dict = [r \in Runs |-> <<>>]
    /\ support_dict = [r \in Runs |-> <<>>]
    /\ max_itemset = [r \in Runs |-> 0]
    /\ combin = [r \in Runs |-> <<>>]
    /\ frequent_itemsets = [r \in Runs |-> <<>>]
    /\ rules = [r \in Runs |-> <<>>]
    /\ err = [r \in Runs |-> ""]

(***************************************************************************)
(* apriori as one function of the matrix and the threshold: the levels     *)
(* that the steps of a run build one by one.                               *)
(***************************************************************************)
RECURSIVE AprioriLevels(_, _, _, _)
AprioriLevels(bd, ms, idict, sdict) ==
    LET cands == generate_new_combinations(idict[Len(idict)])
        mask == Mask(bd, cands, ms)
    IN  IF cands = <<>> \/ mask = {} THEN CollectItemsets(idict, sdict)
        ELSE AprioriLevels(bd, ms, Append(idict, Masked(cands, mask)),
                           Append(sdict, MaskedSupport(bd, cands, mask)))

AprioriAlone(bd, ms) ==
    LET cands == SeedCandidates(bd)
        mask == Mask(bd, cands, ms)
    IN  AprioriLevels(bd, ms, <<Masked(cands, mask)>>, <<MaskedSupport(bd, cands, mask)>>)

(***************************************************************************)
(* The runs that are explored are those whose rule list has a bounded      *)
(* number of outcomes: at most MaxIterOrders ways for the frequent         *)
(* itemsets to iterate and at most MaxTieOrders ways to arrange the rules  *)
(* of equal lift.  Both numbers are counted on the itemsets and the rules  *)
(* that the run computes.                                                  *)
(***************************************************************************)
RECURSIVE Factorial(_)
Factorial(n) == IF n <= 1 THEN 1 ELSE n * Factorial(n - 1)

\* the product of Factorial(size) over the classes of xs, where class[x] is
\* the class of x
RECURSIVE Arrangements(_, _)
Arrangements(xs, class) ==
    IF xs = {} THEN 1
    ELSE LET x == CHOOSE y \in xs : TRUE
         IN  Factorial(Cardinality(class[x])) * Arrangements(xs \ class[x], class)

\* each frequent itemset of k >= 2 items iterates in one of k! orders
RECURSIVE OrderCount(_)
OrderCount(sets) ==
    IF sets = {} THEN 1
    ELSE LET S == CHOOSE T \in sets : TRUE
         IN  Factorial(Cardinality(S)) * OrderCount(sets \ {S})

IterOrderCount(df, sup) ==
    OrderCount(Iterated(AprioriAlone(Crosstab(df), FromRatio(sup))))

\* the splits of the frequent itemsets into antecedent and consequent, as a
\* set: <<antecedents, consequents>>
SplitSet(fi) ==
    UNION {{<<A, U \ A>> : A \in (SUBSET U) \ {{}, U}} : U \in Iterated(fi)}

\* the rounded lift of every split that association_rules keeps: those
\* whose double confidence is >= the double threshold; which splits are
\* kept and their lifts do not depend on the order in which the itemsets
\* iterate.  A split with a side that is not in the frame raises KeyError,
\* and no rule is returned.
KeptLifts(fi, mc) ==
    IF \E x \in SplitSet(fi) : ~HasKey(fi, x[1]) \/ ~HasKey(fi, x[2])
    THEN <<>>
    ELSE [x \in {y \in SplitSet(fi) :
                    FGeq(Confidence(Lookup(fi, y[1] \cup y[2]), Lookup(fi, y[1])), mc)} |->
             Round(Lift(Lookup(fi, x[1] \cup x[2]), Lookup(fi, x[1]), Lookup(fi, x[2])))]

\* the rules of equal rounded lift stand in any order
TieOrders(keys) ==
    Arrangements(DOMAIN keys,
                 [x \in DOMAIN keys |->
                     {y \in DOMAIN keys : FGeq(keys[x], keys[y]) /\ FGeq(keys[y], keys[x])}])

\* the arrangements of the rules that association_rules keeps; the frame
\* and the lifts are each bound once, as values
TieOrderCount(df, sup, conf) ==
    CHOOSE n \in {TieOrders(keys) :
                     keys \in {KeptLifts(fi, FromRatio(conf)) :
                         fi \in {AprioriAlone(Crosstab(df), FromRatio(sup))}}} : TRUE

Explored(in) ==
    \/ AllNaN(in.rows)
    \/ in.min_support.num <= 0
    \/ \E df \in {preprocess_data(in.rows)} :
           /\ IterOrderCount(df, in.min_support) <= MaxIterOrders
           /\ TieOrderCount(df, in.min_support, in.min_confidence) <= MaxTieOrders

ExploredInputs == {x \in Inputs : Explored(x)}

Init ==
    \E in \in ExploredInputs :
        /\ data = in.rows
        /\ given = in.rows
        /\ order = <<>>
        /\ argsort = <<>>
        /\ process = [r \in Runs |-> 1]
        /\ min_support = [r \in Runs |-> in.min_support]
        /\ min_confidence = [r \in Runs |-> in.min_confidence]
        /\ pc = [r \in Runs |-> IF r = 1 THEN "start" ELSE "idle"]
        /\ Locals

\* line 77, preprocess_data line 22: the Date column of the caller's frame is
\* replaced
ConvertDates(r) ==
    /\ pc[r] = "start"
    /\ data' = AssignDate(data)
    /\ pc' = [pc EXCEPT ![r] = "dated"]
    /\ UNCHANGED <<given, process, order, argsort, min_support, min_confidence, frame, stats,
                   binary_data, itemset_dict, support_dict, max_itemset, combin,
                   frequent_itemsets, rules, err>>

\* preprocess_data line 25: the itemDescription column of the caller's frame
\* is replaced
CleanItems(r) ==
    /\ pc[r] = "dated"
    /\ IF AllNaN(data)
       THEN /\ pc' = [pc EXCEPT ![r] = "error"]
            /\ err' = [err EXCEPT ![r] = AttributeError[1].raised]
            /\ data' = data
       ELSE /\ data' = AssignItems(data)
            /\ pc' = [pc EXCEPT ![r] = "cleaned"]
            /\ err' = err
    /\ UNCHANGED <<given, process, order, argsort, min_support, min_confidence, frame, stats,
                   binary_data, itemset_dict, support_dict, max_itemset, combin,
                   frequent_itemsets, rules>>

\* preprocess_data lines 28-33: the deduplicated, NaN-free copy is local
DropRows(r) ==
    /\ pc[r] = "cleaned"
    /\ frame' = [frame EXCEPT ![r] = DropNa(DropDuplicates(data))]
    /\ pc' = [pc EXCEPT ![r] = "preprocessed"]
    /\ UNCHANGED <<data, given, process, order, argsort, min_support, min_confidence,
                   stats, binary_data, itemset_dict, support_dict, max_itemset, combin,
                   frequent_itemsets, rules, err>>

\* line 80
AnalyzeTransactions(r) ==
    /\ pc[r] = "preprocessed"
    /\ stats' = [stats EXCEPT ![r] = analyze_transactions(frame[r])]
    /\ pc' = [pc EXCEPT ![r] = "analyzed"]
    /\ UNCHANGED <<data, given, process, order, argsort, min_support, min_confidence,
                   frame, binary_data, itemset_dict, support_dict, max_itemset, combin,
                   frequent_itemsets, rules, err>>

\* lines 83-84
BuildMatrix(r) ==
    /\ pc[r] = "analyzed"
    /\ binary_data' = [binary_data EXCEPT ![r] = Crosstab(frame[r])]
    /\ pc' = [pc EXCEPT ![r] = "matrix"]
    /\ UNCHANGED <<data, given, process, order, argsort, min_support, min_confidence,
                   frame, stats, itemset_dict, support_dict, max_itemset, combin,
                   frequent_itemsets, rules, err>>

\* apriori, entry: min_support <= 0 raises ValueError; otherwise the
\* frequent single columns seed level 1
AprioriSeed(r) ==
    /\ pc[r] = "matrix"
    /\ IF min_support[r].num <= 0
       THEN /\ pc' = [pc EXCEPT ![r] = "error"]
            /\ err' = [err EXCEPT ![r] = "ValueError: min_support must be a positive number"]
            /\ UNCHANGED <<itemset_dict, support_dict, max_itemset>>
       ELSE LET cands == SeedCandidates(binary_data[r])
                mask == Mask(binary_data[r], cands, FromRatio(min_support[r]))
            IN  /\ itemset_dict' = [itemset_dict EXCEPT ![r] = <<Masked(cands, mask)>>]
                /\ support_dict' = [support_dict EXCEPT ![r] =
                                        <<MaskedSupport(binary_data[r], cands, mask)>>]
                /\ max_itemset' = [max_itemset EXCEPT ![r] = 1]
                /\ pc' = [pc EXCEPT ![r] = "generate"]
                /\ err' = err
    /\ UNCHANGED <<data, given, process, order, argsort, min_support, min_confidence,
                   frame, stats, binary_data, combin, frequent_itemsets, rules>>

\* apriori, loop head: the candidates of the next level; none ends the loop
AprioriGenerate(r) ==
    /\ pc[r] = "generate"
    /\ LET cands == generate_new_combinations(itemset_dict[r][max_itemset[r]])
       IN  /\ combin' = [combin EXCEPT ![r] = cands]
           /\ pc' = [pc EXCEPT ![r] = IF cands = <<>> THEN "collect" ELSE "count"]
    /\ UNCHANGED <<data, given, process, order, argsort, min_support, min_confidence,
                   frame, stats, binary_data, itemset_dict, support_dict, max_itemset,
                   frequent_itemsets, rules, err>>

\* a variant of AprioriCount that keeps the level when candidates reach
\* min_support, so the same candidates are generated again
AprioriCountSameLevel(r) ==
    /\ pc[r] = "count"
    /\ pc' = [pc EXCEPT ![r] =
                 IF Mask(binary_data[r], combin[r], FromRatio(min_support[r])) # {}
                 THEN "generate" ELSE "collect"]
    /\ UNCHANGED <<data, given, process, order, argsort, min_support, min_confidence,
                   frame, stats, binary_data, itemset_dict, support_dict, max_itemset, combin,
                   frequent_itemsets, rules, err>>

\* apriori, loop body: count every candidate; keep those reaching
\* min_support; none ends the loop
AprioriCount(r) ==
    /\ pc[r] = "count"
    /\ LET mask == Mask(binary_data[r], combin[r], FromRatio(min_support[r]))
       IN  IF mask # {}
           THEN /\ itemset_dict' = [itemset_dict EXCEPT ![r] =
                                        Append(@, Masked(combin[r], mask))]
                /\ support_dict' = [support_dict EXCEPT ![r] =
                                        Append(@, MaskedSupport(binary_data[r], combin[r], mask))]
                /\ max_itemset' = [max_itemset EXCEPT ![r] = @ + 1]
                /\ pc' = [pc EXCEPT ![r] = "generate"]
           ELSE /\ pc' = [pc EXCEPT ![r] = "collect"]
                /\ UNCHANGED <<itemset_dict, support_dict, max_itemset>>
    /\ UNCHANGED <<data, given, process, order, argsort, min_support, min_confidence,
                   frame, stats, binary_data, combin, frequent_itemsets, rules, err>>

\* apriori, exit: the frame of all levels is returned (lines 87-89)
AprioriCollect(r) ==
    /\ pc[r] = "collect"
    /\ frequent_itemsets' = [frequent_itemsets EXCEPT ![r] =
                                CollectItemsets(itemset_dict[r], support_dict[r])]
    /\ pc' = [pc EXCEPT ![r] = "mined"]
    /\ UNCHANGED <<data, given, process, order, argsort, min_support, min_confidence,
                   frame, stats, binary_data, itemset_dict, support_dict, max_itemset, combin,
                   rules, err>>

\* lines 92-94: association_rules raises ValueError on an empty frame and
\* KeyError when a split's support is not in the frame; the itemsets that
\* this process has not iterated before iterate in any order
AssociationRules(r) ==
    /\ pc[r] = "mined"
    /\ IF frequent_itemsets[r] = <<>>
       THEN /\ pc' = [pc EXCEPT ![r] = "error"]
            /\ err' = [err EXCEPT ![r] = "ValueError: the frequent itemsets frame is empty"]
            /\ UNCHANGED <<rules, order>>
       ELSE \E fresh \in OrderChoices(Iterated(frequent_itemsets[r]) \ DOMAIN order) :
                /\ order' = fresh @@ order
                /\ IF MissingKey(frequent_itemsets[r], fresh @@ order)
                   THEN /\ pc' = [pc EXCEPT ![r] = "error"]
                        /\ err' = [err EXCEPT ![r] = "KeyError"]
                        /\ rules' = rules
                   ELSE /\ rules' = [rules EXCEPT ![r] =
                                        association_rules(frequent_itemsets[r],
                                                          FromRatio(min_confidence[r]),
                                                          fresh @@ order)]
                        /\ pc' = [pc EXCEPT ![r] = "ruled"]
                        /\ err' = err
    /\ UNCHANGED <<data, given, process, argsort, min_support, min_confidence, frame, stats,
                   binary_data, itemset_dict, support_dict, max_itemset, combin,
                   frequent_itemsets>>

\* lines 96-105: round and sort when there are rules, then return; a lift
\* column that this process has not sorted before is sorted with its equal
\* lifts in any order
RoundAndSort(r) ==
    /\ pc[r] = "ruled"
    /\ IF rules[r] = <<>>
       THEN UNCHANGED <<rules, argsort>>
       ELSE LET rounded == RoundColumns(rules[r])
                keys == LiftColumn(rounded)
            IN  \E perm \in (IF keys \in DOMAIN argsort THEN {argsort[keys]}
                             ELSE Argsorts(keys)) :
                    /\ argsort' = (keys :> perm) @@ argsort
                    /\ rules' = [rules EXCEPT ![r] = SortByLift(rounded, perm)]
    /\ pc' = [pc EXCEPT ![r] = "done"]
    /\ UNCHANGED <<data, given, process, order, min_support, min_confidence, frame, stats,
                   binary_data, itemset_dict, support_dict, max_itemset, combin,
                   frequent_itemsets, err>>

Next ==
    \E r \in Runs :
        \/ ConvertDates(r)
        \/ CleanItems(r)
        \/ DropRows(r)
        \/ AnalyzeTransactions(r)
        \/ BuildMatrix(r)
        \/ AprioriSeed(r)
        \/ AprioriGenerate(r)
        \/ AprioriCount(r)
        \/ AprioriCollect(r)
        \/ AssociationRules(r)
        \/ RoundAndSort(r)

Spec == Init /\ [][Next]_vars

(***************************************************************************)
(* apriori, once called, is executed to its return: the interpreter runs   *)
(* the next step of the call whenever it has one.  Between its entry and   *)
(* its return a run always has a step (AprioriSeed, AprioriGenerate,       *)
(* AprioriCount or AprioriCollect, each of which moves pc[r]), so weak     *)
(* fairness of those steps is weak fairness of the position changing.      *)
(***************************************************************************)
InApriori(r) == pc[r] \in {"matrix", "generate", "count", "collect"}

AprioriAdvances(r) ==
    /\ InApriori(r)
    /\ \E p \in {"generate", "count", "collect", "mined", "error"} :
           /\ p # pc[r]
           /\ pc' = [pc EXCEPT ![r] = p]

FairSpec == Spec /\ \A r \in Runs : WF_pc(AprioriAdvances(r))

(***************************************************************************)
(* Two calls of run_apriori with the same records and the same thresholds. *)
(* Either both are made in one interpreter process on the same DataFrame   *)
(* object, and their steps interleave in every way, one call after the     *)
(* other included; or the second is made in another interpreter process,   *)
(* started after the first call has ended, on the table read again from    *)
(* the same file (app.py line 102).                                        *)
(***************************************************************************)
FirstDayRows == {x \in ExtraRows : x[1].Date = DateStr(1)}

PairedInputs ==
    {Input(BasketRows(b) \o x, Ratio(1, 2), Ratio(3, 5)) :
        b \in {c \in AllBaskets : RowCount(c) + 1 < MaxGroups}, x \in FirstDayRows}
    \cup {Input(BasketRows(ScenarioBaskets), Ratio(1, 2), c) :
        c \in {Ratio(3, 5), Ratio(1, 1)}}
    \cup {Input(BasketRows(ScenarioBaskets) \o x, Ratio(1, 2), Ratio(3, 5)) :
        x \in ExtraRows}
    \cup {Input(BasketRows(<<{1}, {2}>>), p[1], p[2]) :
        p \in {<<Ratio(1, 1), Ratio(3, 5)>>, <<Ratio(0, 1), Ratio(3, 5)>>}}

ExploredPairs == {x \in PairedInputs : Explored(x)}

InitTwo ==
    \E in \in ExploredPairs, second \in Runs :
        /\ data = in.rows
        /\ given = in.rows
        /\ order = <<>>
        /\ argsort = <<>>
        /\ process = [r \in Runs |-> IF r = 1 THEN 1 ELSE second]
        /\ min_support = [r \in Runs |-> in.min_support]
        /\ min_confidence = [r \in Runs |-> in.min_confidence]
        /\ pc = [r \in Runs |-> IF r = 1 \/ second = 1 THEN "start" ELSE "idle"]
        /\ Locals

\* the interpreter of run r starts: str hashes get the salt of the new
\* process, so no iteration order and no tie order is fixed yet, and the
\* table is the one read_csv builds from the file
SecondProcess(r) ==
    /\ pc[r] = "idle"
    /\ \A q \in Runs \ {r} : pc[q] \in {"done", "error"} /\ process[q] # process[r]
    /\ data' = given
    /\ order' = <<>>
    /\ argsort' = <<>>
    /\ pc' = [pc EXCEPT ![r] = "start"]
    /\ UNCHANGED <<given, process, min_support, min_confidence, frame, stats,
                   binary_data, itemset_dict, support_dict, max_itemset, combin,
                   frequent_itemsets, rules, err>>

NextTwo ==
    \/ Next
    \/ \E r \in Runs : SecondProcess(r)

SpecTwo == InitTwo /\ [][NextTwo]_vars


(***************************************************************************)
(* Two calls of run_apriori on the same DataFrame object with different    *)
(* thresholds, running concurrently: their steps interleave in every way.  *)
(***************************************************************************)
\* the thresholds of the two calls: both valid, or one of them invalid
ParallelParams ==
    {<<<<Ratio(1, 2), Ratio(3, 5)>>, <<Ratio(1, 1000), Ratio(1, 1)>>>>,
     <<<<Ratio(1, 1), Ratio(1, 1)>>, <<Ratio(1, 2), Ratio(3, 5)>>>>,
     <<<<Ratio(1, 2), Ratio(1, 1)>>, <<Ratio(1, 2), Ratio(3, 5)>>>>,
     <<<<Ratio(0, 1), Ratio(3, 5)>>, <<Ratio(1, 2), Ratio(3, 5)>>>>}

ParallelTables ==
    {BasketRows(b) : b \in {x \in AllBaskets : RowCount(x) + 1 < MaxGroups}}
    \cup {BasketRows(ScenarioBaskets)}
    \cup {BasketRows(ScenarioBaskets) \o x : x \in FirstDayRows}

\* the tables with the thresholds of the two calls, both calls explored
ExploredParallel ==
    {x \in ParallelTables \X ParallelParams :
        \A r \in Runs : Explored(Input(x[1], x[2][r][1], x[2][r][2]))}

InitParallel ==
    \E rows \in ParallelTables,
       p \in ParallelParams :
        /\ <<rows, p>> \in ExploredParallel
        /\ data = rows
        /\ given = rows
        /\ order = <<>>
        /\ argsort = <<>>
        /\ process = [r \in Runs |-> 1]
        /\ min_support = [r \in Runs |-> p[r][1]]
        /\ min_confidence = [r \in Runs |-> p[r][2]]
        /\ pc = [r \in Runs |-> "start"]
        /\ Locals

SpecParallel == InitParallel /\ [][Next]_vars

(***************************************************************************)
(* Reference values in exact integer arithmetic, read off the incidence    *)
(* matrix of a run.                                                        *)
(***************************************************************************)
\* q lies in (0, 1]
InUnit(q) == q.num > 0 /\ q.num <= q.den

Groups(bd) == Cardinality(bd.index)
Count(bd, S) == Cardinality({g \in bd.index : \A it \in S : bd.X[<<g, it>>]})

\* the non-empty itemsets S with Count(S) / N >= q
ExactFrequent(bd, q) ==
    {S \in SUBSET bd.columns \ {{}} : Count(bd, S) * q.den >= q.num * Groups(bd)}

\* the splits (A, S \ A) of the itemsets of fi with Count(S) / Count(A) >= q
ExactRules(bd, fi, q) ==
    UNION {{<<A, S \ A>> :
                A \in {B \in SUBSET S \ {{}, S} : Count(bd, S) * q.den >= q.num * Count(bd, B)}} :
            S \in {fi[i].itemsets : i \in DOMAIN fi}}

ItemsetsOf(fi) == {fi[i].itemsets : i \in DOMAIN fi}
RulePairs(rs) == {<<rs[i].antecedents, rs[i].consequents>> : i \in DOMAIN rs}

\* apriori has returned its frame / run_apriori has returned
Mined(r) == pc[r] \in {"mined", "ruled", "done"}
Returned(r) == pc[r] = "done"

(***************************************************************************)
(* C1.  With at least one group and min_support in (0, 1], the frame of    *)
(* frequent itemsets that apriori returns holds exactly the non-empty      *)
(* itemsets S with |{g : S within items(g)}| / N >= min_support, equality  *)
(* included, each once and each tagged with the double nearest that ratio. *)
(***************************************************************************)
C1_FrequentItemsetsExact ==
    \A r \in Runs :
        (Mined(r) /\ InUnit(min_support[r]) /\ binary_data[r].index # {}) =>
            LET bd == binary_data[r]
                fi == frequent_itemsets[r]
            IN  /\ ItemsetsOf(fi) = ExactFrequent(bd, min_support[r])
                /\ \A i \in DOMAIN fi :
                       fi[i].support =
                           FromRatio(Ratio(Count(bd, fi[i].itemsets), Groups(bd)))

\* a returned run with an itemset of two or more items whose support equals
\* min_support, and an itemset that occurs but is not frequent
C1_Witness ==
    \E r \in Runs :
        /\ Returned(r) /\ InUnit(min_support[r])
        /\ \E i \in DOMAIN frequent_itemsets[r] :
               /\ Cardinality(frequent_itemsets[r][i].itemsets) >= 2
               /\ Count(binary_data[r], frequent_itemsets[r][i].itemsets) * min_support[r].den
                      = min_support[r].num * Groups(binary_data[r])
        /\ \E S \in SUBSET binary_data[r].columns :
               /\ Count(binary_data[r], S) > 0
               /\ S \notin ItemsetsOf(frequent_itemsets[r])

(***************************************************************************)
(* C2.  As the specification states it: the returned rules are exactly the *)
(* pairs (A, S \ A), S a returned itemset of two or more items, A a        *)
(* non-empty proper subset of S, with support(S) / support(A) >=           *)
(* min_confidence in exact arithmetic.  The code compares the double       *)
(* quotient of two double supports and loses a rule at equality.           *)
(***************************************************************************)
C2_RuleSetExact ==
    \A r \in Runs :
        (Returned(r) /\ InUnit(min_support[r]) /\ InUnit(min_confidence[r])) =>
            RulePairs(rules[r]) =
                ExactRules(binary_data[r], frequent_itemsets[r], min_confidence[r])

(***************************************************************************)
(* C3.  Every rule of a run has a non-empty antecedent and a non-empty     *)
(* consequent, the two are disjoint, their union is one of the frequent    *)
(* itemsets of the run, its confidence lies in [0, 1] and its lift is at   *)
(* least 0.                                                                *)
(***************************************************************************)
C3_RulesValid ==
    \A r \in Runs :
        pc[r] \in {"ruled", "done"} =>
            \A i \in DOMAIN rules[r] :
                LET rule == rules[r][i]
                IN  /\ rule.antecedents # {}
                    /\ rule.consequents # {}
                    /\ rule.antecedents \cap rule.consequents = {}
                    /\ rule.antecedents \cup rule.consequents \in ItemsetsOf(frequent_itemsets[r])
                    /\ FGeq(rule.confidence, FZero)
                    /\ FGeq(FromInt(1), rule.confidence)
                    /\ FGeq(rule.lift, FZero)

\* a returned run with a rule over an itemset of three items and a rule of
\* confidence below 1
C3_Witness ==
    \E r \in Runs :
        /\ Returned(r)
        /\ \E i \in DOMAIN rules[r] :
               Cardinality(rules[r][i].antecedents \cup rules[r][i].consequents) >= 3
        /\ \E i \in DOMAIN rules[r] : rules[r][i].confidence # FromInt(1)

(***************************************************************************)
(* C4, as the specification states it: the returned rules are in           *)
(* descending order of lift, and rules of equal (rounded) lift stand with  *)
(* the smaller antecedent first, then in the order of generation.          *)
(***************************************************************************)
C4_TiesSmallerAntecedentFirst ==
    \A r \in Runs :
        Returned(r) =>
            \A i, j \in DOMAIN rules[r] :
                i < j =>
                    LET a == rules[r][i]
                        b == rules[r][j]
                    IN  /\ FGeq(a.lift, b.lift)
                        /\ a.lift = b.lift =>
                               \/ Cardinality(a.antecedents) < Cardinality(b.antecedents)
                               \/ /\ Cardinality(a.antecedents) = Cardinality(b.antecedents)
                                  /\ a.index < b.index

(***************************************************************************)
(* C4, amended: the returned rules are in descending order of the lift     *)
(* rounded to 3 decimals.  (Rules of equal lift are left as the sort       *)
(* leaves them, which is not by antecedent size.)                          *)
(***************************************************************************)
C4_SortedByLift ==
    \A r \in Runs :
        Returned(r) =>
            \A i, j \in DOMAIN rules[r] :
                i < j => FGeq(rules[r][i].lift, rules[r][j].lift)

\* a returned run whose rules have different lifts, where the sort moved a
\* later generated rule ahead, and where two rules of equal lift stand as
\* they were generated, the larger antecedent first
C4_Witness ==
    \E r \in Runs :
        /\ Returned(r)
        /\ \E i, j \in DOMAIN rules[r] :
               /\ i < j
               /\ rules[r][i].lift # rules[r][j].lift
               /\ rules[r][i].index > rules[r][j].index
        /\ \E i, j \in DOMAIN rules[r] :
               /\ i < j
               /\ rules[r][i].lift = rules[r][j].lift
               /\ rules[r][i].index < rules[r][j].index
               /\ Cardinality(rules[r][i].antecedents) > Cardinality(rules[r][j].antecedents)

(***************************************************************************)
(* C5.  On the groups g1 {milk, bread}, g2 {milk, butter}, g3 {milk,       *)
(* bread, butter}, g4 {bread} (bread = 1, butter = 2, milk = 3) with       *)
(* min_support 0.5 and min_confidence 0.6 the frequent itemsets are        *)
(* {milk} 0.75, {bread} 0.75, {butter} 0.5, {milk, bread} 0.5 and {milk,   *)
(* butter} 0.5, and the rules are milk -> bread (0.667, 0.889), bread ->   *)
(* milk (0.667, 0.889), milk -> butter (0.667, 1.333) and butter -> milk   *)
(* (1.0, 1.333), each of support 0.5.                                      *)
(***************************************************************************)
IsScenario(r) ==
    /\ binary_data[r].index = DOMAIN ScenarioBaskets
    /\ binary_data[r].columns = UNION Range(ScenarioBaskets)
    /\ \A g \in DOMAIN ScenarioBaskets :
           {it \in binary_data[r].columns : binary_data[r].X[<<g, it>>]} = ScenarioBaskets[g]
    /\ min_support[r] = Ratio(1, 2)
    /\ min_confidence[r] = Ratio(3, 5)

\* the double nearest to the decimal n / 10^3
Milli(n) == FromRatio(Ratio(n, Scale))

C5_ScenarioOutcome ==
    \A r \in Runs :
        (Returned(r) /\ IsScenario(r)) =>
            /\ Len(frequent_itemsets[r]) = 5
            /\ {<<frequent_itemsets[r][i].itemsets, frequent_itemsets[r][i].support>> :
                    i \in DOMAIN frequent_itemsets[r]}
                 = {<<{3}, Milli(750)>>, <<{1}, Milli(750)>>, <<{2}, Milli(500)>>,
                    <<{1, 3}, Milli(500)>>, <<{2, 3}, Milli(500)>>}
            /\ Len(rules[r]) = 4
            /\ {<<rules[r][i].antecedents, rules[r][i].consequents, rules[r][i].support,
                  rules[r][i].confidence, rules[r][i].lift>> : i \in DOMAIN rules[r]}
                 = {<<{3}, {1}, Milli(500), Milli(667), Milli(889)>>,
                    <<{1}, {3}, Milli(500), Milli(667), Milli(889)>>,
                    <<{3}, {2}, Milli(500), Milli(667), Milli(1333)>>,
                    <<{2}, {3}, Milli(500), Milli(1000), Milli(1333)>>}

\* the scenario has run to its end with a set that iterated in another
\* order than the sorted one
C5_Witness ==
    \E r \in Runs :
        /\ Returned(r) /\ IsScenario(r) /\ Len(rules[r]) > 0
        /\ \E S \in DOMAIN order : order[S] # SortedSeq(S)

(***************************************************************************)
(* C6, as the specification states it: with min_support or min_confidence  *)
(* outside (0, 1] the run reports an InvalidParameter error before it has  *)
(* preprocessed anything, computed statistics or built the matrix, and     *)
(* returns nothing.  The code validates nothing: it runs every stage up to *)
(* apriori, which rejects only min_support <= 0.                           *)
(***************************************************************************)
C6_InvalidParameterFailsFast ==
    \A r \in Runs :
        (~InUnit(min_support[r]) \/ ~InUnit(min_confidence[r])) =>
            /\ pc[r] \in {"idle", "start", "error"}
            /\ stats[r] = NoStats
            /\ binary_data[r] = NoMatrix
            /\ frequent_itemsets[r] = <<>>
            /\ rules[r] = <<>>

(***************************************************************************)
(* C7, as the specification states it: a table with zero normalized        *)
(* records runs to its end without raising; the matrix, the itemsets and   *)
(* the rules are empty, the group count is 0 and the statistics are zero.  *)
(* The code raises in association_rules, and the mean is NaN; on a table   *)
(* with rows whose names are all missing it raises at line 25.             *)
(***************************************************************************)
C7_EmptyInputCompletes ==
    \A r \in Runs :
        (/\ pc[r] \notin {"idle", "start", "dated", "cleaned"}
         /\ frame[r] = <<>>
         /\ InUnit(min_support[r]) /\ InUnit(min_confidence[r])) =>
            /\ pc[r] # "error"
            /\ pc[r] # "preprocessed" =>
                   /\ stats[r].total_transactions = 0
                   /\ stats[r].total_items = 0
                   /\ stats[r].avg_items_per_transaction = FZero
                   /\ stats[r].most_common_items = <<>>
            /\ Returned(r) =>
                   /\ binary_data[r].index = {}
                   /\ frequent_itemsets[r] = <<>>
                   /\ rules[r] = <<>>

(***************************************************************************)
(* C8, as the specification states it: on a non-empty table, when mining   *)
(* finds no frequent itemset of two or more items (or none at all), the    *)
(* run ends normally with no rules; it never raises.  The code raises in   *)
(* association_rules when no itemset at all is frequent.                   *)
(***************************************************************************)
C8_NothingFrequentIsNoError ==
    \A r \in Runs :
        (/\ frame[r] # <<>>
         /\ InUnit(min_support[r]) /\ InUnit(min_confidence[r])) =>
            /\ pc[r] # "error"
            /\ (Returned(r) /\ \A i \in DOMAIN frequent_itemsets[r] :
                                   Cardinality(frequent_itemsets[r][i].itemsets) < 2) =>
                   rules[r] = <<>>

(***************************************************************************)
(* C9.  Two runs on the same records with the same min_support and         *)
(* min_confidence end alike: both return or both raise the same error, and *)
(* when they return, their (itemset, support) pairs are the same set and   *)
(* their rule lists are the same sequence, rules of equal lift included.   *)
(***************************************************************************)
Ended(r) == pc[r] \in {"done", "error"}
ItemsetPairs(fi) == {<<fi[i].itemsets, fi[i].support>> : i \in DOMAIN fi}
SameThresholds ==
    /\ min_support[1] = min_support[2]
    /\ min_confidence[1] = min_confidence[2]

C9_SameInputSameOutput ==
    (Ended(1) /\ Ended(2) /\ SameThresholds) =>
        /\ pc[1] = pc[2]
        /\ err[1] = err[2]
        /\ ItemsetPairs(frequent_itemsets[1]) = ItemsetPairs(frequent_itemsets[2])
        /\ rules[1] = rules[2]

\* the rules of a list without their positions and index labels
RuleSet(rs) ==
    {[f \in DOMAIN rs[i] \ {"index"} |-> rs[i][f]] : i \in DOMAIN rs}

\* what the two runs do share: in one interpreter process everything, in
\* two processes everything but the order of the rules of equal lift
C9_SameProcessSameOutput ==
    (Ended(1) /\ Ended(2) /\ SameThresholds) =>
        /\ pc[1] = pc[2]
        /\ err[1] = err[2]
        /\ ItemsetPairs(frequent_itemsets[1]) = ItemsetPairs(frequent_itemsets[2])
        /\ RuleSet(rules[1]) = RuleSet(rules[2])
        /\ LiftColumn(rules[1]) = LiftColumn(rules[2])
        /\ process[1] = process[2] => rules[1] = rules[2]

\* both runs have returned in one process; the cleaning removed a row of the
\* caller's table and the rule list has two rules of equal lift
C9_Witness ==
    /\ Returned(1) /\ Returned(2)
    /\ process[1] = process[2]
    /\ Len(frame[1]) < Len(data)
    /\ \E i, j \in DOMAIN rules[2] : i < j /\ rules[2][i].lift = rules[2][j].lift

\* the second run has returned in another process than the first, with the
\* same rules in another order
C9_OtherProcessOtherOrder ==
    /\ Returned(1) /\ Returned(2)
    /\ process[1] # process[2]
    /\ RuleSet(rules[1]) = RuleSet(rules[2])
    /\ rules[1] # rules[2]

(***************************************************************************)
(* C10, as the specification states it: the support of every returned      *)
(* itemset and the support, confidence and lift of every returned rule are *)
(* the exact value rounded to 3 decimals.                                  *)
(***************************************************************************)
\* the results of rint(v * 10^3)
Thousandths == {ScaledValues[v] : v \in DOMAIN ScaledValues}

\* the integer n of each double n / 10^3
ThousandthOf ==
    <<>> @@ [v \in {Milli(n) : n \in Thousandths} |->
                CHOOSE n \in Thousandths : Milli(n) = v]

\* v is the double n / 10^3 for an integer n within half a unit of
\* 10^3 * num / den
RoundedTo3(v, num, den) ==
    /\ v \in DOMAIN ThousandthOf
    /\ 2 * (ThousandthOf[v] * den - Scale * num) <= den
    /\ 2 * (Scale * num - ThousandthOf[v] * den) <= den

RuleValuesRounded(r) ==
    \A i \in DOMAIN rules[r] :
        LET rule == rules[r][i]
            cAC == Count(binary_data[r], rule.antecedents \cup rule.consequents)
            cA == Count(binary_data[r], rule.antecedents)
            cC == Count(binary_data[r], rule.consequents)
        IN  /\ RoundedTo3(rule.support, cAC, Groups(binary_data[r]))
            /\ RoundedTo3(rule.confidence, cAC, cA)
            /\ RoundedTo3(rule.lift, cAC * Groups(binary_data[r]), cA * cC)

C10_AllValuesRounded ==
    \A r \in Runs :
        Returned(r) =>
            /\ RuleValuesRounded(r)
            /\ \A i \in DOMAIN frequent_itemsets[r] :
                   RoundedTo3(frequent_itemsets[r][i].support,
                              Count(binary_data[r], frequent_itemsets[r][i].itemsets),
                              Groups(binary_data[r]))

(***************************************************************************)
(* C10, amended: the support, confidence and lift of every returned rule   *)
(* are multiples of 0.001 (as doubles) within 0.0005 of the exact value;   *)
(* the supports of the returned itemsets are left as computed.             *)
(***************************************************************************)
C10_RuleValuesRounded ==
    \A r \in Runs : Returned(r) => RuleValuesRounded(r)

\* a returned run with a rule whose exact confidence is no multiple of
\* 0.001 and an itemset whose support is returned with more than 3 decimals
C10_Witness ==
    \E r \in Runs :
        /\ Returned(r)
        /\ \E i \in DOMAIN rules[r] :
               (Scale * Count(binary_data[r], rules[r][i].antecedents \cup rules[r][i].consequents))
                   % Count(binary_data[r], rules[r][i].antecedents) # 0
        /\ \E i \in DOMAIN frequent_itemsets[r] :
               frequent_itemsets[r][i].support \notin DOMAIN ThousandthOf

(***************************************************************************)
(* C11.  The frame of frequent itemsets is downward closed and support is  *)
(* anti-monotone over it: with an itemset B the frame holds every          *)
(* non-empty subset A of B, and support(A) >= support(B); so               *)
(* association_rules finds the support of every antecedent and consequent  *)
(* in the frame and never fails on a missing key.                          *)
(***************************************************************************)
C11_DownwardClosed ==
    \A r \in Runs :
        /\ Mined(r) =>
               \A i \in DOMAIN frequent_itemsets[r] :
                   \A A \in SUBSET frequent_itemsets[r][i].itemsets \ {{}} :
                       /\ HasKey(frequent_itemsets[r], A)
                       /\ FGeq(Lookup(frequent_itemsets[r], A), frequent_itemsets[r][i].support)
        /\ err[r] # "KeyError"

\* a returned run with an itemset of three items and a subset of it that has
\* a larger support
C11_Witness ==
    \E r \in Runs :
        /\ Returned(r)
        /\ \E i \in DOMAIN frequent_itemsets[r] :
               /\ Cardinality(frequent_itemsets[r][i].itemsets) >= 3
               /\ \E A \in SUBSET frequent_itemsets[r][i].itemsets \ {{}} :
                      /\ HasKey(frequent_itemsets[r], A)
                      /\ Lookup(frequent_itemsets[r], A) # frequent_itemsets[r][i].support


(***************************************************************************)
(* C12, as the specification states it: a run never changes the caller's   *)
(* records; every step leaves the table that was passed in as it was.      *)
(* The code assigns the converted Date column and the stripped, lowercased *)
(* itemDescription column on the frame it was given.                       *)
(***************************************************************************)
C12_CallerDataUnchanged == [][data' = data]_vars

\* what the code does keep: the caller's table has the same rows, in the same
\* order, with the same Member_number, after any step
C12_RowsKept ==
    [][/\ Len(data') = Len(data)
       /\ \A i \in DOMAIN data : data'[i].Member_number = data[i].Member_number]_vars

(***************************************************************************)
(* What one call of run_apriori returns when nothing else runs: the        *)
(* stages of run_apriori composed on the table as the caller passed it,    *)
(* in a process whose sets iterate as ord says and whose argsort is srt.   *)
(***************************************************************************)
RunAlone(rows, sup, conf, ord, srt) ==
    LET df == preprocess_data(rows)
    IN  IF df = AttributeError
        THEN [returned |-> FALSE, stats |-> NoStats, itemsets |-> <<>>, rules |-> <<>>]
        ELSE LET bd == Crosstab(df)
                 fi == IF sup.num <= 0 THEN <<>> ELSE AprioriAlone(bd, FromRatio(sup))
                 raised == fi = <<>> \/ MissingKey(fi, ord)
                 rs == IF raised THEN <<>> ELSE association_rules(fi, FromRatio(conf), ord)
                 rounded == RoundColumns(rs)
             IN  [returned |-> ~raised,
                  stats |-> analyze_transactions(df),
                  itemsets |-> fi,
                  rules |-> IF rs # <<>>
                            THEN SortByLift(rounded, srt[LiftColumn(rounded)])
                            ELSE rs]

(***************************************************************************)
(* C13.  Two calls running concurrently on the same table with different   *)
(* thresholds do not interfere: under every interleaving of their steps,   *)
(* a call that has ended has returned or raised as it would alone, and a   *)
(* call that has returned holds the statistics, the itemsets with their    *)
(* supports and the rule list it would return alone.                       *)
(***************************************************************************)
C13_ConcurrentRunsIndependent ==
    \A r \in Runs :
        Ended(r) =>
            LET alone == RunAlone(given, min_support[r], min_confidence[r], order, argsort)
            IN  /\ stats[r] = alone.stats
                /\ frequent_itemsets[r] = alone.itemsets
                /\ Returned(r) <=> alone.returned
                /\ Returned(r) => rules[r] = alone.rules

\* both calls have returned, with different non-empty rule lists, on a table
\* that the cleaning has changed and shortened
C13_Witness ==
    /\ Returned(1) /\ Returned(2)
    /\ rules[1] # rules[2]
    /\ rules[1] # <<>> /\ rules[2] # <<>>
    /\ Len(frame[1]) < Len(given)
    /\ data # given

(***************************************************************************)
(* C14, as the specification states it: at every level k >= 2 the          *)
(* candidates are pruned before they are counted, so no candidate with a   *)
(* (k-1)-subset outside the frequent itemsets of level k-1 reaches the     *)
(* scan of the matrix.  apriori counts every tuple that                    *)
(* generate_new_combinations yields, and that generator does not look at   *)
(* the subsets of what it yields.                                          *)
(***************************************************************************)
\* the itemsets of the last level apriori has completed
LastLevel(r) == {Range(t) : t \in Range(itemset_dict[r][max_itemset[r]])}

C14_PrunedBeforeCount ==
    \A r \in Runs :
        pc[r] = "count" =>
            \A j \in DOMAIN combin[r] :
                \A it \in Range(combin[r][j]) :
                    Range(combin[r][j]) \ {it} \in LastLevel(r)

(***************************************************************************)
(* C15.  With min_support in (0, 1], apriori, once it has seeded level 1,  *)
(* leaves its loop; it leaves the loop exactly in a step where             *)
(* generate_new_combinations yields no candidate or where no counted       *)
(* candidate reaches min_support; and the level never exceeds the number   *)
(* of item columns plus one.                                               *)
(***************************************************************************)
\* the step of run r is the one that ends the loop of apriori
LeavesLoop(r) == pc[r] # "collect" /\ pc'[r] = "collect"

NoCandidates(r) ==
    /\ pc[r] = "generate"
    /\ generate_new_combinations(itemset_dict[r][max_itemset[r]]) = <<>>

NoneFrequent(r) ==
    /\ pc[r] = "count"
    /\ Mask(binary_data[r], combin[r], FromRatio(min_support[r])) = {}

C15_MinerTerminates ==
    /\ \A r \in Runs :
           (pc[r] = "matrix" /\ InUnit(min_support[r])) ~> (pc[r] = "collect")
    /\ [][\A r \in Runs :
              (pc[r] \in {"generate", "count"} /\ pc'[r] # pc[r]) =>
                  (LeavesLoop(r) <=> (NoCandidates(r) \/ NoneFrequent(r)))]_vars
    /\ [](\A r \in Runs : max_itemset[r] <= Cardinality(binary_data[r].columns) + 1)

\* the loop has ended after level 2 or later, once because no candidate of
\* the next level reached min_support
C15_Witness ==
    \E r \in Runs :
        /\ pc[r] = "collect"
        /\ InUnit(min_support[r])
        /\ max_itemset[r] >= 2
        /\ combin[r] # <<>>

(***************************************************************************)
(* C16.  The matrix a run builds has a row per member and a column per     *)
(* cleaned item name of the table the caller passed; the cell (g, i) is    *)
(* TRUE iff the table has at least one row of member g whose cleaned name  *)
(* is i, however many such rows there are; every column has a TRUE cell    *)
(* and so has every row.                                                   *)
(***************************************************************************)
\* the rows of the table passed in that give member g the item named i
RecordsOf(g, i) ==
    {k \in DOMAIN given :
        /\ given[k].Member_number = g
        /\ given[k].itemDescription.form # "nan"
        /\ ItemName(StrStripLower(given[k].itemDescription)) = i}

MatrixBuilt(r) == pc[r] \in {"matrix", "generate", "count", "collect", "mined", "ruled", "done"}

C16_PresenceNotMultiplicity ==
    \A r \in Runs :
        MatrixBuilt(r) =>
            LET bd == binary_data[r]
            IN  /\ \A g \in {given[k].Member_number : k \in DOMAIN given}, i \in ItemIds :
                       (RecordsOf(g, i) # {}) <=>
                           (g \in bd.index /\ i \in bd.columns /\ bd.X[<<g, i>>])
                /\ \A i \in bd.columns : \E g \in bd.index : bd.X[<<g, i>>]
                /\ \A g \in bd.index : \E i \in bd.columns : bd.X[<<g, i>>]
                /\ \A g \in bd.index, i \in bd.columns : bd.X[<<g, i>>] \in BOOLEAN

\* a matrix has been built from a table in which a member has the same item
\* on two dates
C16_Witness ==
    \E r \in Runs :
        /\ MatrixBuilt(r)
        /\ \E g \in binary_data[r].index, i \in binary_data[r].columns :
               \E k, l \in RecordsOf(g, i) : given[k].Date.day # given[l].Date.day

(***************************************************************************)
(* C17.  An itemset is its set of items: among the candidates apriori      *)
(* counts at a level no two tuples hold the same items, the returned frame *)
(* of frequent itemsets has no itemset in two rows, and the returned rules *)
(* have no (antecedents, consequents) pair in two rows.                    *)
(***************************************************************************)
C17_NoItemsetTwice ==
    \A r \in Runs :
        /\ pc[r] = "count" =>
               \A i, j \in DOMAIN combin[r] :
                   Range(combin[r][i]) = Range(combin[r][j]) => i = j
        /\ Mined(r) =>
               \A i, j \in DOMAIN frequent_itemsets[r] :
                   frequent_itemsets[r][i].itemsets = frequent_itemsets[r][j].itemsets => i = j
        /\ pc[r] \in {"ruled", "done"} =>
               \A i, j \in DOMAIN rules[r] :
                   (/\ rules[r][i].antecedents = rules[r][j].antecedents
                    /\ rules[r][i].consequents = rules[r][j].consequents) => i = j

\* a run has returned two or more rules after apriori kept two or more
\* pairs at level 2 and counted a candidate of three items
C17_Witness ==
    \E r \in Runs :
        /\ Returned(r)
        /\ Len(rules[r]) >= 2
        /\ Len(itemset_dict[r]) >= 2
        /\ Len(itemset_dict[r][2]) >= 2
        /\ \E j \in DOMAIN combin[r] : Len(combin[r][j]) >= 3

=============================================================================
